---- MODULE Spec2Model ----
(***************************************************************************)
(* A model of the Telegram weather bot (weather_bot.py and its near-copy   *)
(* weather_bot_cloud.py): the handlers registered in WeatherBot.run, the   *)
(* weather lookup (typing indicator, one HTTP GET, reply) and the two pure *)
(* helpers get_weather_emoji and format_weather_message.                   *)
(*                                                                         *)
(* Strings.  A message text is a sequence of atoms.  "/" is the command    *)
(* prefix, " " is one whitespace character and every other atom stands for *)
(* a non-empty run of letters ("start" for the letters s-t-a-r-t, "a" for  *)
(* any other word).  A reply text is a sequence of pieces: the literal     *)
(* parts of the Python string and, between them, the interpolated values,  *)
(* so that interpolation is concatenation.  The emoji of the source are    *)
(* written by name in square brackets ([cross mark] for the red cross).    *)
(***************************************************************************)
EXTENDS Integers, Sequences, FiniteSets, TLC

\* ------------------------------------------------------------------ bounds
\* Longest inbound text, in atoms ("/weather a" has four).
MaxLen == 4
\* Number of messages in flight together in SpecConc.
NumMsgs == 2
\* get_weather_emoji is checked on the condition codes -Margin .. 900 + Margin.
Margin == 3

Msgs == 1..NumMsgs

Slash == "/"
Space == " "
Words == {"start", "help", "weather", "a"}
Atoms == {Slash, Space} \cup Words

RECURSIVE SeqsUpTo(_, _)
SeqsUpTo(S, n) ==
    IF n = 0 THEN {<<>>}
    ELSE LET shorter == SeqsUpTo(S, n - 1)
         IN  shorter \cup {Append(s, a) : s \in {x \in shorter : Len(x) = n - 1}, a \in S}

\* The texts the platform can deliver: a text message is never empty.
Texts == SeqsUpTo(Atoms, MaxLen) \ {<<>>}

\* ------------------------------------------------------------ str methods
IsBlank(s) == \A i \in 1..Len(s) : s[i] = Space

RECURSIVE lstrip(_)
lstrip(s) == IF s # <<>> /\ Head(s) = Space THEN lstrip(Tail(s)) ELSE s

RECURSIVE rstrip(_)
rstrip(s) ==
    IF s # <<>> /\ s[Len(s)] = Space THEN rstrip(SubSeq(s, 1, Len(s) - 1)) ELSE s

\* str.strip()
strip(s) == rstrip(lstrip(s))

\* str.startswith('/')
startswith_slash(s) == s # <<>> /\ Head(s) = Slash

\* The first whitespace-free run of s (s starts with a non-space atom).
RECURSIVE FirstToken(_)
FirstToken(s) ==
    IF s = <<>> \/ Head(s) = Space THEN <<>> ELSE <<Head(s)>> \o FirstToken(Tail(s))

\* str.split(): the whitespace-free runs of s, in order.
RECURSIVE split(_)
split(s) ==
    LET t == lstrip(s)
    IN  IF t = <<>> THEN <<>>
        ELSE LET tok == FirstToken(t)
             IN  <<tok>> \o split(SubSeq(t, Len(tok) + 1, Len(t)))

\* ' '.join(tokens)
RECURSIVE join(_)
join(tokens) ==
    IF tokens = <<>> THEN <<>>
    ELSE IF Len(tokens) = 1 THEN tokens[1]
    ELSE tokens[1] \o <<Space>> \o join(Tail(tokens))

\* ------------------------------------------------------------ reply texts
WELCOME ==
    <<"[sun behind cloud] Welcome to Weather Bot! [sun behind cloud]\n\nI can help you get weather information for any city.\n\nCommands:\n/start - Show this welcome message\n/help - Show help information\n/weather <city> - Get weather for a specific city\n\nYou can also just send me a city name and I'll get the weather for you!">>

HELP_TEXT ==
    <<"[sos] Help - Weather Bot\n\nHow to use:\n* Send /weather followed by city name\n* Example: /weather London\n* Or just send: London\n\nI'll provide:\n* Current temperature\n* Weather description\n* Humidity and pressure\n* Wind speed\n* Feels like temperature">>

GUIDANCE == <<"Please provide a city name!\nExample: /weather London">>

UNKNOWN_COMMAND == <<"Unknown command. Type /help for available commands.">>

GENERIC_FAILURE ==
    <<"[cross mark] Sorry, there was an error getting the weather information. Please try again later.">>

NotFoundText(city) ==
    <<"[cross mark] Sorry, I couldn't find weather information for '">> \o city
        \o <<"'.\nPlease check the city name and try again.">>

\* ---------------------------------------------------------------- payloads
\* The leaves format_weather_message reads with [] (a KeyError when absent).
RequiredKeys ==
    {"name", "sys.country", "main.temp", "main.feels_like", "main.humidity",
     "main.pressure", "weather.0.description", "weather.0.id"}

\* Marks an optional leaf the payload does not carry.
NoKey == "<absent>"
Speeds == {"3.6", "0"}
WeatherIds == (0 - Margin)..(900 + Margin)

\* What response.json() can return for a 200: JSON null, a JSON object (with
\* the required leaves in `missing` absent; wind = the top-level wind.speed,
\* main_wind = main.wind.speed), or no JSON at all (json() raises).
Payload(kind, missing, wind, main_wind, id) ==
    [kind |-> kind, missing |-> missing, wind |-> wind, main_wind |-> main_wind, id |-> id]

NoBody == Payload("invalid", {}, NoKey, NoKey, 0)
NullBody == Payload("null", {}, NoKey, NoKey, 0)

\* Every JSON object over the leaves above.
ObjectPayloads ==
    {Payload("object", mi, w, mw, id) :
        mi \in SUBSET RequiredKeys, w \in Speeds \cup {NoKey},
        mw \in Speeds \cup {NoKey}, id \in {299, 800}}

\* The bodies the weather provider answers a lookup with in the pipeline.
PipelinePayloads ==
    {NullBody,
     Payload("object", {}, NoKey, NoKey, 801),
     Payload("object", {}, "3.6", NoKey, 801),
     Payload("object", {"name"}, NoKey, NoKey, 801)}

\* The values of the required leaves (the payload of the spec's scenario).
Value(key) ==
    CASE key = "name" -> "London"
      [] key = "sys.country" -> "GB"
      [] key = "main.temp" -> "15.0"
      [] key = "main.feels_like" -> "14.0"
      [] key = "main.humidity" -> "80"
      [] key = "main.pressure" -> "1012"
      [] OTHER -> "few clouds"

\* str.title() on the description.
title(s) == IF s = "few clouds" THEN "Few Clouds" ELSE s

\* ------------------------------------------------------- get_weather_emoji
get_weather_emoji_gap(weather_id) ==
    IF weather_id < 300 THEN "[thunderstorm]"
    ELSE IF weather_id < 400 THEN "[drizzle]"
    ELSE IF weather_id < 600 THEN "[rain]"
    ELSE IF weather_id < 700 THEN "[snow]"
    ELSE IF weather_id < 800 THEN "[fog]"
    ELSE IF weather_id > 800 THEN "[sun]"
    ELSE "[cloud]"

get_weather_emoji(weather_id) ==
    IF weather_id < 300 THEN "[thunderstorm]"
    ELSE IF weather_id < 400 THEN "[drizzle]"
    ELSE IF weather_id < 600 THEN "[rain]"
    ELSE IF weather_id < 700 THEN "[snow]"
    ELSE IF weather_id < 800 THEN "[fog]"
    ELSE IF weather_id = 800 THEN "[sun]"
    ELSE "[cloud]"

get_weather_emoji_cloud(weather_id) ==
    IF weather_id < 300 THEN "[thunderstorm]"
    ELSE IF weather_id < 400 THEN "[drizzle]"
    ELSE IF weather_id < 600 THEN "[rain]"
    ELSE IF weather_id < 700 THEN "[snow]"
    ELSE IF weather_id < 800 THEN "[fog]"
    ELSE IF weather_id = 800 THEN "[sun]"
    ELSE "[cloud]"

\* -------------------------------------------------- format_weather_message
\* The result of a call: raised (a KeyError or TypeError left the function)
\* or the message, as its pieces.
Raised == [raised |-> TRUE, text |-> <<>>]
Returned(t) == [raised |-> FALSE, text |-> t]

\* The f-string of the message, lines 86-94.
MessageText(emoji, wind_speed) ==
    <<emoji, " Weather in ", Value("name"), ", ", Value("sys.country"), "\n\n",
      "[thermometer] Temperature: ", Value("main.temp"), "[deg]C\n",
      "[thinking face] Feels like: ", Value("main.feels_like"), "[deg]C\n",
      "[memo] Description: ", title(Value("weather.0.description")), "\n",
      "[droplet] Humidity: ", Value("main.humidity"), "%\n",
      "[bar chart] Pressure: ", Value("main.pressure"), " hPa\n",
      "[dash] Wind Speed: ", wind_speed, " m/s">>

\* The piece of a formatted message at the wind-speed position.
WindPiece(t) == t[Len(t) - 1]

\* weather_bot.py: weather_data['main'].get('wind', {}).get('speed', 'N/A')
format_weather_message(weather_data) ==
    IF weather_data.kind # "object" \/ weather_data.missing # {} THEN Raised
    ELSE Returned(MessageText(get_weather_emoji(weather_data.id),
                  IF weather_data.main_wind = NoKey THEN "N/A" ELSE weather_data.main_wind))

\* weather_bot_cloud.py: weather_data.get('wind', {}).get('speed', 'N/A')
format_weather_message_cloud(weather_data) ==
    IF weather_data.kind # "object" \/ weather_data.missing # {} THEN Raised
    ELSE Returned(MessageText(get_weather_emoji_cloud(weather_data.id),
                  IF weather_data.wind = NoKey THEN "N/A" ELSE weather_data.wind))

Impls == {"weather_bot", "weather_bot_cloud"}

Format(i, weather_data) ==
    IF i = "weather_bot" THEN format_weather_message(weather_data)
    ELSE format_weather_message_cloud(weather_data)

\* ------------------------------------------------------------------ state
VARIABLES
    impl,          \* which of the two source files runs
    config,        \* the bot's fields set by __init__
    pc,            \* per message: where its handling stands
    text,          \* per message: update.message.text
    city_name,     \* per message: the city_name argument of get_weather
    resp,          \* per message: what the HTTP GET produced
    weather_data,  \* per message: what get_weather_data gave get_weather
    gets,          \* per message: the HTTP GETs issued, as their parameters
    sent,          \* per message: the reply_text calls, with their outcome
    log,           \* per message: the externally visible events, in order
    error,         \* per message: an exception left the handler
    weather_id,    \* SpecEmoji: the argument of get_weather_emoji
    emoji,         \* SpecEmoji: its result in each implementation
    payload,       \* SpecFormat: the argument of format_weather_message
    message        \* SpecFormat: its result in each implementation

vars ==
    <<impl, config, pc, text, city_name, resp, weather_data, gets, sent, log, error,
      weather_id, emoji, payload, message>>

pure == <<weather_id, emoji, payload, message>>

\* ------------------------------------------------------------ construction
\* __init__: weather_bot.py ignores its arguments and stores literals,
\* weather_bot_cloud.py stores its arguments.
WeatherBot_init(i, telegram_token, weather_api_key) ==
    [telegram_token |-> IF i = "weather_bot" THEN "token literal" ELSE telegram_token,
     weather_api_key |-> IF i = "weather_bot" THEN "key literal" ELSE weather_api_key,
     weather_base_url |-> "http://api.openweathermap.org/data/2.5/weather"]

\* ---------------------------------------------------------------- dispatch
IsWord(a) == a \in Words

\* The platform marks a bot command at offset 0: "/" directly followed by letters.
HasCommandEntity(t) == Len(t) >= 2 /\ t[1] = Slash /\ IsWord(t[2])

RECURSIVE WordRun(_)
WordRun(s) == IF s = <<>> \/ ~IsWord(Head(s)) THEN <<>> ELSE <<Head(s)>> \o WordRun(Tail(s))

\* The command a CommandHandler compares: the letters of the entity after "/".
CommandName(t) == WordRun(Tail(t))

\* str.split(' '): cut at every single space, empty pieces kept.
RECURSIVE split_on_space(_)
split_on_space(s) ==
    IF \A i \in 1..Len(s) : s[i] # Space THEN <<s>>
    ELSE LET i == CHOOSE j \in 1..Len(s) : s[j] = Space /\ \A k \in 1..(j - 1) : s[k] # Space
         IN  <<SubSeq(s, 1, i - 1)>> \o split_on_space(SubSeq(s, i + 1, Len(s)))

\* The arguments as text.split(' ')[1:] would give them.
context_args_split_on_space(t) == Tail(split_on_space(t))

\* context.args of a CommandHandler: text.split()[1:]
context_args(t) == Tail(split(t))

\* The four handlers added in run(), tried in order; the first whose filter
\* accepts the update handles it, and an update none accepts is dropped.
HandlerFor(t) ==
    IF HasCommandEntity(t) /\ CommandName(t) = <<"start">> THEN "start"
    ELSE IF HasCommandEntity(t) /\ CommandName(t) = <<"help">> THEN "help_command"
    ELSE IF HasCommandEntity(t) /\ CommandName(t) = <<"weather">> THEN "weather_command"
    ELSE IF t # <<>> /\ ~HasCommandEntity(t) THEN "handle_message"
    ELSE "unhandled"

\* ----------------------------------------------------------------- fetcher
NoResponse == [net |-> "none", status |-> 0, json |-> NoBody]

\* The outcomes of session.get: the connection fails, or a status arrives
\* (with a body that matters for 200 only).
Responses ==
    {[net |-> "error", status |-> 0, json |-> NoBody]}
        \cup {[net |-> "ok", status |-> s, json |-> NoBody] : s \in {404, 500}}
        \cup {[net |-> "ok", status |-> 200, json |-> p] : p \in PipelinePayloads \cup {NoBody}}

Pending == [tag |-> "pending", data |-> NoBody]
Exc == [tag |-> "raised", data |-> NoBody]
None == [tag |-> "none", data |-> NoBody]

\* JSON null returned by response.json() is Python's None.
json(body) ==
    IF body.kind = "invalid" THEN Exc
    ELSE IF body.kind = "null" THEN None
    ELSE [tag |-> "data", data |-> body]

\* The status check without its 404 branch: every status but 200 raises.
get_weather_data_result_404_raises(response) ==
    IF response.net = "error" THEN Exc
    ELSE IF response.status = 200 THEN json(response.json)
    ELSE Exc

\* get_weather_data, lines 58-69: what the call gives its caller for a response.
get_weather_data_result(response) ==
    IF response.net = "error" THEN Exc
    ELSE IF response.status = 200 THEN json(response.json)
    ELSE IF response.status = 404 THEN None
    ELSE Exc

\* ----------------------------------------------------------------- actions
\* update.message.reply_text(t): the call is made, and it returns (ok) or raises.
reply_text(m, t, ok) == sent' = [sent EXCEPT ![m] = Append(@, [text |-> t, ok |-> ok])]

Log(m, events) == log' = [log EXCEPT ![m] = @ \o events]

Goto(m, where) == pc' = [pc EXCEPT ![m] = where]

\* The handler returns, or an exception leaves it (error_handler logs it).
Return(m, raised) ==
    /\ pc' = [pc EXCEPT ![m] = "done"]
    /\ error' = [error EXCEPT ![m] = raised]

\* A handler whose whole body is one reply_text.
StaticReply(m, t) ==
    \E ok \in BOOLEAN :
        /\ reply_text(m, t, ok)
        /\ Log(m, <<"reply">>)
        /\ Return(m, ~ok)
        /\ UNCHANGED <<pure, impl, config, text, city_name, resp, weather_data, gets>>

\* run(): the application, built without concurrent_updates, takes the next
\* update only when the handler of the previous one has returned, and hands it
\* to the first matching handler.
Dispatch(m) ==
    /\ pc[m] = "new"
    /\ \A n \in Msgs \ {m} : pc[n] \in {"idle", "new", "done", "unhandled"}
    /\ Goto(m, HandlerFor(text[m]))
    /\ UNCHANGED <<pure, impl, config, text, city_name, resp, weather_data, gets, sent, log, error>>

start(m) ==
    /\ pc[m] = "start"
    /\ StaticReply(m, WELCOME)

help_command(m) ==
    /\ pc[m] = "help_command"
    /\ StaticReply(m, HELP_TEXT)

weather_command(m) ==
    /\ pc[m] = "weather_command"
    /\ IF context_args(text[m]) = <<>>
       THEN StaticReply(m, GUIDANCE)
       ELSE /\ city_name' = [city_name EXCEPT ![m] = join(context_args(text[m]))]
            /\ Goto(m, "get_weather")
            /\ UNCHANGED <<pure, impl, config, text, resp, weather_data, gets, sent, log, error>>

handle_message(m) ==
    /\ pc[m] = "handle_message"
    /\ IF startswith_slash(strip(text[m]))
       THEN StaticReply(m, UNKNOWN_COMMAND)
       ELSE /\ city_name' = [city_name EXCEPT ![m] = strip(text[m])]
            /\ Goto(m, "get_weather")
            /\ UNCHANGED <<pure, impl, config, text, resp, weather_data, gets, sent, log, error>>

\* get_weather, line 143: the typing indicator, outside the try block.
get_weather(m) ==
    /\ pc[m] = "get_weather"
    /\ \E ok \in BOOLEAN :
        /\ Log(m, <<"typing">>)
        /\ IF ok
           THEN Goto(m, "get_weather_data") /\ UNCHANGED error
           ELSE Return(m, TRUE)
    /\ UNCHANGED <<pure, impl, config, text, city_name, resp, weather_data, gets, sent>>

\* get_weather_data, lines 52-60: the GET is issued and the coroutine suspends.
get_weather_data(m) ==
    /\ pc[m] = "get_weather_data"
    /\ gets' = [gets EXCEPT ![m] =
                   Append(@, [url |-> config.weather_base_url, q |-> city_name[m],
                              appid |-> config.weather_api_key, units |-> "metric"])]
    /\ Log(m, <<"GET">>)
    /\ Goto(m, "awaiting_response")
    /\ UNCHANGED <<pure, impl, config, text, city_name, resp, weather_data, sent, error>>

\* The fetch with a retry: a network failure sends the GET again.
response_retry(m) ==
    /\ pc[m] = "awaiting_response"
    /\ \E r \in Responses :
        /\ resp' = [resp EXCEPT ![m] = r]
        /\ weather_data' = [weather_data EXCEPT ![m] = get_weather_data_result(r)]
        /\ Goto(m, IF r.net = "error" THEN "get_weather_data"
                   ELSE IF get_weather_data_result(r).tag = "raised"
                   THEN "except" ELSE "have_weather_data")
    /\ Log(m, <<"response">>)
    /\ UNCHANGED <<pure, impl, config, text, city_name, gets, sent, error>>

\* get_weather_data, lines 60-69: the GET produces its outcome; an exception
\* goes to the except clause of get_weather.
response(m) ==
    /\ pc[m] = "awaiting_response"
    /\ \E r \in Responses :
        /\ resp' = [resp EXCEPT ![m] = r]
        /\ weather_data' = [weather_data EXCEPT ![m] = get_weather_data_result(r)]
        /\ Goto(m, IF get_weather_data_result(r).tag = "raised"
                   THEN "except" ELSE "have_weather_data")
    /\ Log(m, <<"response">>)
    /\ UNCHANGED <<pure, impl, config, text, city_name, gets, sent, error>>

\* get_weather, lines 148-156, inside the try block: the not-found reply, or
\* the formatted message; whatever raises goes to the except clause.
get_weather_reply(m) ==
    /\ pc[m] = "have_weather_data"
    /\ IF weather_data[m].tag = "none"
       THEN \E ok \in BOOLEAN :
               /\ reply_text(m, NotFoundText(city_name[m]), ok)
               /\ Log(m, <<"reply">>)
               /\ IF ok THEN Return(m, FALSE) ELSE Goto(m, "except") /\ UNCHANGED error
       ELSE LET formatted == Format(impl, weather_data[m].data)
            IN  IF formatted.raised
                THEN /\ Log(m, <<"format">>)
                     /\ Goto(m, "except")
                     /\ UNCHANGED <<sent, error>>
                ELSE \E ok \in BOOLEAN :
                        /\ reply_text(m, formatted.text, ok)
                        /\ Log(m, <<"format", "reply">>)
                        /\ IF ok THEN Return(m, FALSE)
                           ELSE Goto(m, "except") /\ UNCHANGED error
    /\ UNCHANGED <<pure, impl, config, text, city_name, resp, weather_data, gets>>

\* get_weather, lines 158-163: the except clause.
get_weather_except(m) ==
    /\ pc[m] = "except"
    /\ StaticReply(m, GENERIC_FAILURE)

\* The next step of message m's handling, whichever it is.
Handle(m) ==
    \/ Dispatch(m)
    \/ start(m)
    \/ help_command(m)
    \/ weather_command(m)
    \/ handle_message(m)
    \/ get_weather(m)
    \/ get_weather_data(m)
    \/ response(m)
    \/ get_weather_reply(m)
    \/ get_weather_except(m)

\* No call of a pure helper has been made.
NotCalled == [raised |-> FALSE, text |-> <<>>]

PureIdle ==
    /\ weather_id = 0
    /\ emoji = [local |-> "", cloud |-> ""]
    /\ payload = NoBody
    /\ message = [local |-> NotCalled, cloud |-> NotCalled]

Constructed(i) ==
    /\ impl = i
    /\ config = WeatherBot_init(i, "TELEGRAM_BOT_TOKEN", "WEATHER_API_KEY")
    /\ city_name = [m \in Msgs |-> <<>>]
    /\ resp = [m \in Msgs |-> NoResponse]
    /\ weather_data = [m \in Msgs |-> Pending]
    /\ gets = [m \in Msgs |-> <<>>]
    /\ sent = [m \in Msgs |-> <<>>]
    /\ log = [m \in Msgs |-> <<>>]
    /\ error = [m \in Msgs |-> FALSE]

\* One inbound text event, handled alone.
Init ==
    /\ \E i \in Impls : Constructed(i)
    /\ \E t \in Texts : text = [m \in Msgs |-> IF m = 1 THEN t ELSE <<>>]
    /\ pc = [m \in Msgs |-> IF m = 1 THEN "new" ELSE "idle"]
    /\ PureIdle

Next ==
    \/ \E m \in Msgs : Dispatch(m)
    \/ \E m \in Msgs : start(m)
    \/ \E m \in Msgs : help_command(m)
    \/ \E m \in Msgs : weather_command(m)
    \/ \E m \in Msgs : handle_message(m)
    \/ \E m \in Msgs : get_weather(m)
    \/ \E m \in Msgs : get_weather_data(m)
    \/ \E m \in Msgs : response(m)
    \/ \E m \in Msgs : get_weather_reply(m)
    \/ \E m \in Msgs : get_weather_except(m)

Spec == Init /\ [][Next]_vars

\* ------------------------------------------------- several messages
\* The texts of the messages delivered together: the three commands and a
\* plain city name, so that every handler runs.
ConcTexts ==
    {<<Slash, "start">>, <<Slash, "help">>, <<Slash, "weather", Space, "a">>, <<"help">>}

InitConc ==
    /\ \E i \in Impls : Constructed(i)
    /\ text \in [Msgs -> ConcTexts]
    /\ pc = [m \in Msgs |-> "new"]
    /\ PureIdle

\* Several updates are waiting in the application's queue.
SpecConc == InitConc /\ [][Next]_vars

\* ------------------------------------------------- the pure helpers alone
NoMessages ==
    /\ Constructed("weather_bot_cloud")
    /\ text = [m \in Msgs |-> <<>>]
    /\ pc = [m \in Msgs |-> "idle"]

call_get_weather_emoji ==
    /\ emoji.local = ""
    /\ emoji' = [emoji EXCEPT !.local = get_weather_emoji(weather_id)]
    /\ UNCHANGED <<impl, config, pc, text, city_name, resp, weather_data, gets, sent, log,
                   error, weather_id, payload, message>>

call_get_weather_emoji_cloud ==
    /\ emoji.cloud = ""
    /\ emoji' = [emoji EXCEPT !.cloud = get_weather_emoji_cloud(weather_id)]
    /\ UNCHANGED <<impl, config, pc, text, city_name, resp, weather_data, gets, sent, log,
                   error, weather_id, payload, message>>

InitEmoji ==
    /\ NoMessages
    /\ weather_id \in WeatherIds
    /\ emoji = [local |-> "", cloud |-> ""]
    /\ payload = NoBody
    /\ message = [local |-> NotCalled, cloud |-> NotCalled]

NextEmoji == call_get_weather_emoji \/ call_get_weather_emoji_cloud

SpecEmoji == InitEmoji /\ [][NextEmoji]_vars

call_format_weather_message ==
    /\ message.local = NotCalled
    /\ message' = [message EXCEPT !.local = format_weather_message(payload)]
    /\ UNCHANGED <<impl, config, pc, text, city_name, resp, weather_data, gets, sent, log,
                   error, weather_id, emoji, payload>>

call_format_weather_message_cloud ==
    /\ message.cloud = NotCalled
    /\ message' = [message EXCEPT !.cloud = format_weather_message_cloud(payload)]
    /\ UNCHANGED <<impl, config, pc, text, city_name, resp, weather_data, gets, sent, log,
                   error, weather_id, emoji, payload>>

InitFormat ==
    /\ NoMessages
    /\ weather_id = 0
    /\ emoji = [local |-> "", cloud |-> ""]
    /\ payload \in ObjectPayloads
    /\ message = [local |-> NotCalled, cloud |-> NotCalled]

NextFormat == call_format_weather_message \/ call_format_weather_message_cloud

SpecFormat == InitFormat /\ [][NextFormat]_vars

\* ================================================================== claims
Finished(m) == pc[m] \in {"done", "unhandled"}

ReplyTexts(m) == [i \in 1..Len(sent[m]) |-> sent[m][i].text]

Occurrences(l, e) == Cardinality({i \in 1..Len(l) : l[i] = e})

KnownCommand(t) ==
    HasCommandEntity(t) /\ CommandName(t) \in {<<"start">>, <<"help">>, <<"weather">>}

\* The text after the command token of a command message.
ArgumentOf(t) == SubSeq(t, Len(CommandName(t)) + 2, Len(t))

\* C1: handling any inbound text event makes exactly one reply_text call,
\* with a non-empty text: never none, never two.
C1_ExactlyOneReply ==
    \A m \in Msgs :
        /\ Len(sent[m]) <= 1
        /\ (Finished(m) /\ text[m] # <<>>) => (Len(sent[m]) = 1 /\ sent[m][1].text # <<>>)

LookupFailed(r) ==
    \/ r.net = "error"
    \/ r.net = "ok" /\ r.status \notin {200, 404}
    \/ r.net = "ok" /\ r.status = 200 /\ (r.json.kind # "object" \/ r.json.missing # {})

\* C2: a lookup that failed otherwise than by a 404 (another status, a network
\* failure, a 200 whose payload lacks a required field) is answered with the
\* generic-failure text and nothing else.
C2_GenericFailure ==
    \A m \in Msgs :
        LookupFailed(resp[m]) =>
            /\ \A i \in 1..Len(sent[m]) : sent[m][i].text = GENERIC_FAILURE
            /\ Finished(m) => sent[m] # <<>>

C4_UnknownCommandAnswered ==
    \A m \in Msgs :
        (startswith_slash(text[m]) /\ ~KnownCommand(text[m])) =>
            /\ gets[m] = <<>>
            /\ Finished(m) => ReplyTexts(m) = <<UNKNOWN_COMMAND>>

\* C5: a /weather command whose argument is empty or only whitespace is
\* answered with the guidance reply, with no typing indicator and no HTTP GET.
C5_EmptyArgumentGuidance ==
    \A m \in Msgs :
        (HasCommandEntity(text[m]) /\ CommandName(text[m]) = <<"weather">>
            /\ IsBlank(ArgumentOf(text[m]))) =>
            /\ Occurrences(log[m], "typing") = 0
            /\ gets[m] = <<>>
            /\ Finished(m) => ReplyTexts(m) = <<GUIDANCE>>

C5_Witness ==
    \E m \in Msgs :
        /\ text[m] = <<Slash, "weather", Space, Space>>
        /\ pc[m] = "done"
        /\ ReplyTexts(m) = <<GUIDANCE>>

\* C6: the city sent upstream as q is never empty and never only whitespace.
C6_CityNeverBlank ==
    \A m \in Msgs : \A i \in 1..Len(gets[m]) : ~IsBlank(gets[m][i].q)

DocumentedIcon(result, id) ==
    /\ result = "[thunderstorm]" <=> id <= 299
    /\ result = "[drizzle]" <=> (300 <= id /\ id <= 399)
    /\ result = "[rain]" <=> (400 <= id /\ id <= 599)
    /\ result = "[snow]" <=> (600 <= id /\ id <= 699)
    /\ result = "[fog]" <=> (700 <= id /\ id <= 799)
    /\ result = "[sun]" <=> id = 800
    /\ result = "[cloud]" <=> id >= 801

\* C7: in both implementations the icon is the one documented for the range
\* the code lies in: below 300, 300..399, 400..599, 600..699, 700..799, 800,
\* above 800.
C7_EmojiPartition ==
    /\ emoji.local # "" => DocumentedIcon(emoji.local, weather_id)
    /\ emoji.cloud # "" => DocumentedIcon(emoji.cloud, weather_id)
    /\ (emoji.local # "" /\ emoji.cloud # "") => emoji.local = emoji.cloud

C7_Witness == weather_id = 800 /\ emoji.local = "[sun]" /\ emoji.cloud = "[sun]"

WindLineOf(result, p) ==
    p.missing = {} =>
        /\ ~result.raised
        /\ WindPiece(result.text) = (IF p.wind = NoKey THEN "N/A" ELSE p.wind)

\* C8: in both implementations the wind-speed position of the message holds
\* "N/A" exactly when the payload has no top-level wind.speed, and that value
\* otherwise; a payload with every required field is always formatted.
C8_WindSpeedLine ==
    /\ message.local # NotCalled => WindLineOf(message.local, payload)
    /\ message.cloud # NotCalled => WindLineOf(message.cloud, payload)

AloneCity(t) ==
    IF HandlerFor(t) = "weather_command" THEN join(context_args(t)) ELSE strip(t)

AloneLookupReply(i, city, r) ==
    LET d == get_weather_data_result(r)
    IN  IF d.tag = "raised" THEN GENERIC_FAILURE
        ELSE IF d.tag = "none" THEN NotFoundText(city)
        ELSE IF Format(i, d.data).raised THEN GENERIC_FAILURE
        ELSE Format(i, d.data).text

AloneFirstReply(i, t, r) ==
    LET h == HandlerFor(t)
    IN  IF h = "start" THEN WELCOME
        ELSE IF h = "help_command" THEN HELP_TEXT
        ELSE IF h = "weather_command" /\ context_args(t) = <<>> THEN GUIDANCE
        ELSE IF h = "handle_message" /\ startswith_slash(strip(t)) THEN UNKNOWN_COMMAND
        ELSE AloneLookupReply(i, AloneCity(t), r)

RepliesAsAlone ==
    \A m \in Msgs :
        /\ \A i \in 1..Len(gets[m]) : gets[m][i].q = AloneCity(text[m])
        /\ sent[m] # <<>> => sent[m][1].text = AloneFirstReply(impl, text[m], resp[m])
        /\ Len(sent[m]) > 1 =>
            (Len(sent[m]) = 2 /\ ~sent[m][1].ok /\ sent[m][2].text = GENERIC_FAILURE)

ConfigUnmodified == config = WeatherBot_init(impl, "TELEGRAM_BOT_TOKEN", "WEATHER_API_KEY")

SuspendedCallBlocksNobody ==
    \A m, n \in Msgs :
        (m # n /\ pc[m] = "awaiting_response" /\ ~Finished(n) /\ pc[n] # "idle") =>
            ENABLED Handle(n)

\* C9: with several messages delivered, each reply is the one the message
\* gets alone (a function of its own text and of the response to its own GET),
\* the configuration keeps the values __init__ gave it, and while one message
\* waits for its HTTP response every other unfinished message can take a step.
C9_Isolation == RepliesAsAlone /\ ConfigUnmodified /\ SuspendedCallBlocksNobody

\* C10: a lookup emits the typing indicator first, then issues one GET, never
\* a second, and replies only after the GET's outcome; a message answered with
\* a static reply issues no GET.
C10_LookupOrder ==
    \A m \in Msgs :
        LET l == log[m]
        IN  /\ Occurrences(l, "GET") <= 1
            /\ Len(gets[m]) = Occurrences(l, "GET")
            /\ \A i \in 1..Len(l) : l[i] = "typing" => i = 1
            /\ \A i \in 1..Len(l) : l[i] = "GET" => (i = 2 /\ l[1] = "typing")
            /\ \A i \in 1..Len(l) : l[i] = "response" => (i = 3 /\ l[2] = "GET")
            /\ (l # <<>> /\ l[1] = "typing") =>
                   \A i \in 1..Len(l) : l[i] = "reply" => (i > 3 /\ l[3] = "response")
            /\ (l # <<>> /\ l[1] = "reply") => gets[m] = <<>>
            /\ (Finished(m) /\ sent[m] # <<>> /\ l[1] = "typing") => Len(gets[m]) = 1

C10_Witness ==
    \E m \in Msgs :
        /\ pc[m] = "done"
        /\ log[m] = <<"typing", "GET", "response", "format", "reply">>
        /\ Len(gets[m]) = 1

====
